---- MODULE Spec2Model ----
(***************************************************************************)
(* Model of the UnderControl adapter framework: the adapter registry       *)
(* (under_control/adapters/__init__.py), the Kasa adapter and the LG TV    *)
(* adapter with its session store and connect handler.                     *)
(*                                                                         *)
(* Spec        registry lifecycle: create / startup / shutdown called in   *)
(*             any order over any set of discovered plugin classes.        *)
(* SpecServe   an adapter of the repository (KasaAdapter or LGTVAdapter),   *)
(*             constructed, with its lifecycle hooks and request handlers. *)
(* SpecStatus  the list-TV-devices handler and its online refresh.         *)
(* SpecDiscover the discover handler and _separate_new_hosts.              *)
(* SpecCommand the command handler and LGTVCommander.send_command.         *)
(* SpecKasa    the Kasa endpoints that address one device.                 *)
(* SpecLookup  create() and get() over further plugin class names.         *)
(* SpecMain    the process flow of main.py.                                *)
(* SpecPair    connect_device and get_devices, one request at a time.      *)
(***************************************************************************)
EXTENDS Integers, Sequences, FiniteSets, TLC

VARIABLES
    registered,     \* _registered_adapters: class names in insertion order
    configSlices,   \* class names that have a sub-document adapters.<name>
    instanceCount,  \* <Class>._instance_count
    constructed,    \* every instance whose constructor returned, in order
    created,        \* _created_adapters: ordered dict  key -> instance
    routes,         \* one entry per _register_endpoints call on the app
    creates,        \* number of create() calls made
    startups,       \* per instance: number of startup() invocations
    call,           \* the last registry call and what it did
    kasaDevices,    \* KasaAdapter._devices: alias -> power state
    cfgKey,         \* config: adapters.LGTVAdapter.devices.<name>.key
    savedKey,       \* the same entries in the file written by config.save
    connections,    \* LGTVAdapter._connections: name -> session
    sessions,       \* every WebOSClient connection opened: [name, status]
    online,         \* LGTVAdapter._online (a list)
    thr,            \* request threads running connect_device
    rt,             \* per name: progress of connect / disconnect / connect
    lastOp,         \* per adapter kind: "shutdown" when that was its last operation
    event,          \* the last adapter-level operation and its outcome
    cfgHost,        \* config: adapters.LGTVAdapter.devices.<name>.host
    configDoc,      \* shape of the loaded document above the adapters' slices
    inputOpen       \* sessions whose InputControl has its input socket open

regVars   == <<registered, configSlices, configDoc, instanceCount, constructed, created,
               routes, creates>>
tvVars    == <<cfgKey, savedKey, connections, sessions, online, thr, rt>>
vars      == <<registered, configSlices, instanceCount, constructed, created,
               routes, creates, startups, call, kasaDevices, cfgKey, savedKey,
               connections, sessions, online, thr, rt, lastOp, event,
               cfgHost, inputOpen, configDoc>>
cmdVars   == <<cfgHost, inputOpen>>

----------------------------------------------------------------------------
(* Bounds *)

MaxAdapters == 3
MaxCreateCalls == 2
MaxStartupCalls == 2
MaxSessions == 3
MaxOnline == 4
MaxHosts == 3

----------------------------------------------------------------------------
(* Class names are strings; they are kept as sequences of characters so    *)
(* that str.replace and str.lower are computed, not assumed.               *)

Suffix == <<"A","d","a","p","t","e","r">>

KasaAdapter == <<"K","a","s","a">> \o Suffix
LGTVAdapter == <<"L","G","T","V">> \o Suffix
\* a further plugin class that find_adapters would register
LgtvAdapter == <<"L","g","t","v">> \o Suffix

ClassNames == {KasaAdapter, LGTVAdapter, LgtvAdapter}

Upper == <<"A","D","E","G","K","L","P","R","S","T","V">>
LowerOf == <<"a","d","e","g","k","l","p","r","s","t","v">>

\* str.lower on one character
LowerChar(c) ==
    IF \E i \in 1..Len(Upper) : Upper[i] = c
    THEN LowerOf[CHOOSE i \in 1..Len(Upper) : Upper[i] = c]
    ELSE c

\* str.lower
Lower(s) == [i \in 1..Len(s) |-> LowerChar(s[i])]

\* s.replace(old, ""): every non-overlapping occurrence, left to right
RECURSIVE Replace(_, _)
Replace(s, old) ==
    IF Len(s) < Len(old) THEN s
    ELSE IF SubSeq(s, 1, Len(old)) = old
         THEN Replace(SubSeq(s, Len(old) + 1, Len(s)), old)
         ELSE <<Head(s)>> \o Replace(Tail(s), old)

\* adapter_name = cls_name.replace("Adapter", "").lower()
AdapterName(cls) == Lower(Replace(cls, Suffix))

\* which implementation a class is
Kind(cls) ==
    IF cls = KasaAdapter THEN "kasa"
    ELSE IF cls = LGTVAdapter THEN "lgtv"
    ELSE "plugin"

----------------------------------------------------------------------------
(* Ordered dict helpers (Python dicts keep insertion order; assigning to   *)
(* an existing key keeps the key's position).                              *)

HasKey(d, k) == \E i \in 1..Len(d) : d[i].key = k

DictSet(d, k, v) ==
    IF HasKey(d, k)
    THEN [i \in 1..Len(d) |-> IF d[i].key = k THEN [key |-> k, inst |-> v] ELSE d[i]]
    ELSE Append(d, [key |-> k, inst |-> v])

DictValues(d) == [i \in 1..Len(d) |-> d[i].inst]

----------------------------------------------------------------------------
(* Registry: create *)

\* the loaded document: a node is a dict with its items, or another value
Leaf == [isDict |-> FALSE, items |-> <<>>]
Dict(items) == [isDict |-> TRUE, items |-> items]

KeyAdapters == <<"a","d","a","p","t","e","r","s">>
KeyLogging == <<"l","o","g","g","i","n","g">>
KeyDevices == <<"d","e","v","i","c","e","s">>

\* _config: nothing loaded, no adapters table, adapters not a table, or an
\* adapters table with a sub-table for each class of slices
DocShapes == {"empty", "no_adapters", "scalar", "table"}

Document(shape, slices) ==
    CASE shape = "empty" -> Dict(<<>>)
      [] shape = "no_adapters" -> Dict([k \in {KeyLogging} |-> Leaf])
      [] shape = "scalar" -> Dict([k \in {KeyLogging, KeyAdapters} |-> Leaf])
      [] OTHER -> Dict([k \in {KeyLogging, KeyAdapters} |->
                          IF k = KeyLogging THEN Leaf
                          ELSE Dict([c \in slices |-> Dict([d \in {KeyDevices} |-> Leaf])])])

\* item_path.split('.')
RECURSIVE SplitPath(_, _, _, _)
SplitPath(text, i, cur, acc) ==
    IF i > Len(text) THEN Append(acc, cur)
    ELSE IF text[i] = "." THEN SplitPath(text, i + 1, <<>>, Append(acc, cur))
    ELSE SplitPath(text, i + 1, Append(cur, text[i]), acc)

\* the loop of config.get over the pieces of the path
RECURSIVE Walk(_, _, _)
Walk(ptr, pieces, i) ==
    IF i > Len(pieces) THEN [raised |-> FALSE, value |-> ptr]
    ELSE IF ~ptr.isDict THEN [raised |-> TRUE, value |-> Leaf]
    ELSE IF pieces[i] \notin DOMAIN ptr.items THEN [raised |-> TRUE, value |-> Leaf]
    ELSE Walk(ptr.items[pieces[i]], pieces, i + 1)

\* config.get(item_path); raised stands for ConfigException
ConfigGet(doc, item_path) ==
    IF DOMAIN doc.items = {} THEN [raised |-> TRUE, value |-> Leaf]
    ELSE Walk(doc, SplitPath(item_path, 1, <<>>, <<>>), 1)

\* f"adapters.{cls_name}"
ItemPath(cls) == KeyAdapters \o <<".">> \o cls

\* config.get("adapters.<cls>") with the ConfigException handler of create
\* (_NoDefault: the slice is taken as found even when the lookup failed)
ConfigFor_NoDefault(doc, cls) == "slice"
ConfigFor(doc, cls) == IF ConfigGet(doc, ItemPath(cls)).raised THEN "empty" ELSE "slice"

\* the single-instance check of Adapter.__init__
\* (_NoGuard: the constructor without the check)
AlreadyLoaded_NoGuard(count, cls) == FALSE
AlreadyLoaded(count, cls) == count[cls] > 0

\* AdapterCls(cfg, app): Adapter.__init__ followed by the subclass body.
\* st carries count, constructed, created, routes, raised.
Construct(st, cls, cfg) ==
    LET st1 == [st EXCEPT !.routes = Append(@, cls)]
    IN  IF AlreadyLoaded(st1.count, cls)
        THEN [st1 EXCEPT !.raised = TRUE]
        ELSE [st1 EXCEPT !.count[cls] = @ + 1,
                         !.constructed = Append(@, [cls |-> cls, cfg |-> cfg, attrs |-> TRUE])]

\* the loop of create(), from the i-th registered class on
RECURSIVE CreateLoop(_, _, _, _)
CreateLoop(reg, doc, i, st) ==
    IF i > Len(reg) \/ st.raised THEN st
    ELSE LET cls == reg[i]
             st1 == Construct(st, cls, ConfigFor(doc, cls))
             st2 == IF st1.raised THEN st1
                    ELSE [st1 EXCEPT !.created =
                            DictSet(@, AdapterName(cls), Len(st1.constructed))]
         IN  CreateLoop(reg, doc, i + 1, st2)

RegState ==
    [count |-> instanceCount, constructed |-> constructed, created |-> created,
     routes |-> routes, raised |-> FALSE]

NoCall == [op |-> "none", raised |-> FALSE, order |-> <<>>]

----------------------------------------------------------------------------
(* Devices *)

KasaAliases == {"plug", "bulb"}

\* the possible contents of KasaAdapter._devices
KasaDeviceMaps ==
    UNION {[A -> [is_on : BOOLEAN]] : A \in SUBSET KasaAliases}

\* the TVs of the configuration, in the order of the devices table
DeviceOrder == <<"tv1", "tv2">>
DeviceNames == {DeviceOrder[i] : i \in 1..Len(DeviceOrder)}
RequestNames == DeviceNames \cup {"ghost"}

NoKey == "none"
\* the client key each TV hands out when it registers the client
TvKey == [n \in DeviceNames |-> IF n = "tv1" THEN "k1" ELSE "k2"]

Threads == {"t1", "t2"}

EmptyDict == [n \in {} |-> 0]

IdleThread == [pc |-> "idle", name |-> "", sess |-> 0, key |-> NoKey,
               wrote |-> FALSE, saved |-> FALSE,
               cmd |-> "", msg |-> <<>>, calls |-> <<>>]

NoRoundTrip == [stage |-> 0, first |-> 0, second |-> 0]

\* the argument a sub-controller method is called with
NoArg == [type |-> "none", b |-> FALSE, n |-> 0, s |-> <<>>]

NoEvent == [op |-> "none", who |-> "", name |-> "", prev |-> "other",
            hadStartup |-> FALSE, closed |-> {}, raised |-> FALSE,
            status |-> 0, msg |-> "", cause |-> "", sess |-> 0, wrote |-> FALSE,
            saved |-> FALSE, pings |-> <<>>, summary |-> <<>>,
            hosts |-> <<>>, existing |-> <<>>, newHosts |-> <<>>,
            cmd |-> "", payload |-> <<>>, apps |-> <<>>, arg |-> NoArg,
            calls |-> <<>>, error |-> "", body |-> "", key |-> NoKey]

----------------------------------------------------------------------------
(* LGTVAdapter._disconnect_all *)

\* the sessions close_connection is called on
ClosedBy(conn) == {conn[n] : n \in DOMAIN conn}

\* close_connection on every stored commander
\* (_NoClose: the store is dropped without closing)
SessionsAfterDisconnect_NoClose(sess, conn) == sess
SessionsAfterDisconnect(sess, conn) ==
    [i \in 1..Len(sess) |->
        IF i \in ClosedBy(conn) THEN [sess[i] EXCEPT !.status = "closed"] ELSE sess[i]]

\* self._connections.clear()
\* (_NoClear: the entries are left in the store)
ConnectionsAfterDisconnect_NoClear(conn) == conn
ConnectionsAfterDisconnect(conn) == EmptyDict

\* the round-trip bookkeeping of one name when every session is dropped
AfterDisconnect(r) ==
    IF r.stage = 1 THEN [r EXCEPT !.stage = 2]
    ELSE IF r.stage = 3 THEN [stage |-> 2, first |-> r.second, second |-> 0]
    ELSE r

\* whether LGTVAdapter.shutdown raises on an instance; attrs says whether
\* __init__ got as far as creating _connections
\* (_DeleteInLoop: entries deleted while the dict is iterated, which Python
\* rejects as soon as the store is not empty)
LGTVShutdownRaises_DeleteInLoop(inst) == ~inst.attrs \/ connections # EmptyDict
LGTVShutdownRaises(inst) == ~inst.attrs

LGTVShutdown(inst) ==
    IF LGTVShutdownRaises(inst)
    THEN UNCHANGED <<sessions, connections, rt>>
    ELSE /\ sessions' = SessionsAfterDisconnect(sessions, connections)
         /\ connections' = ConnectionsAfterDisconnect(connections)
         /\ rt' = [n \in DeviceNames |-> AfterDisconnect(rt[n])]

----------------------------------------------------------------------------
(* Registry: the actions *)

Instances == 1..Len(constructed)

InstancesOf(cls) == {i \in Instances : constructed[i].cls = cls}

\* create(app)
Create ==
    /\ creates < MaxCreateCalls
    /\ LET st == CreateLoop(registered, Document(configDoc, configSlices), 1, RegState)
       IN  /\ instanceCount' = st.count
           /\ constructed' = st.constructed
           /\ created' = st.created
           /\ routes' = st.routes
           /\ startups' = [i \in 1..Len(st.constructed) |->
                              IF i \in Instances THEN startups[i] ELSE 0]
           /\ call' = [op |-> "create", raised |-> st.raised, order |-> <<>>]
    /\ creates' = creates + 1
    /\ UNCHANGED <<cmdVars, registered, configSlices, configDoc, kasaDevices, cfgKey, savedKey,
                   connections, sessions, online, thr, rt, lastOp, event>>

\* whether the startup() of an implementation can raise: KasaAdapter runs a
\* network discovery, LGTVAdapter.startup is empty
StartupMayRaise(cls) == Kind(cls) # "lgtv"

\* the instances a loop over _created_adapters.values() reaches when the
\* calls on the instances of failing raise
Invoked(order, failing) ==
    IF \E k \in 1..Len(order) : order[k] \in failing
    THEN SubSeq(order, 1, CHOOSE k \in 1..Len(order) :
                    /\ order[k] \in failing
                    /\ \A j \in 1..(k - 1) : order[j] \notin failing)
    ELSE order

Range(s) == {s[i] : i \in 1..Len(s)}

\* startup()
Startup ==
    /\ \A i \in Range(DictValues(created)) : startups[i] < MaxStartupCalls
    /\ \E failing \in SUBSET {i \in Instances : StartupMayRaise(constructed[i].cls)},
          devs \in KasaDeviceMaps :
         LET order == Invoked(DictValues(created), failing)
         IN  /\ startups' = [i \in Instances |->
                               IF i \in Range(order) THEN startups[i] + 1 ELSE startups[i]]
             /\ call' = [op |-> "startup",
                         raised |-> (Range(order) \cap failing # {}),
                         order |-> order]
             /\ kasaDevices' =
                   IF \E i \in Range(order) : Kind(constructed[i].cls) = "kasa"
                   THEN devs ELSE kasaDevices
    /\ UNCHANGED <<cmdVars, regVars, tvVars, lastOp, event>>

\* shutdown()
Shutdown ==
    /\ LET all == DictValues(created)
           failing == {i \in Instances : /\ Kind(constructed[i].cls) = "lgtv"
                                         /\ LGTVShutdownRaises(constructed[i])}
           order == Invoked(all, failing)
       IN  /\ call' = [op |-> "shutdown",
                       raised |-> (Range(order) \cap failing # {}),
                       order |-> order]
           /\ IF \E i \in Range(order) : Kind(constructed[i].cls) = "lgtv"
              THEN LGTVShutdown(constructed[CHOOSE i \in Range(order) :
                                               Kind(constructed[i].cls) = "lgtv"])
              ELSE UNCHANGED <<sessions, connections, rt>>
    /\ UNCHANGED <<cmdVars, regVars, startups, kasaDevices, cfgKey, savedKey, online,
                   thr, lastOp, event>>

----------------------------------------------------------------------------
(* Initial state: setup() has loaded the configuration and find_adapters   *)
(* has registered the plugin classes; nothing is constructed.              *)

\* the class tables find_adapters can produce: distinct names in any order
Registrations ==
    {s \in UNION {[1..n -> ClassNames] : n \in 0..MaxAdapters} :
        \A i, j \in 1..Len(s) : i # j => s[i] # s[j]}

\* the adapters' own state once constructed; keys are the client keys the
\* loaded configuration file holds for the TVs
InitAdapterStateWith(keys, hosts) ==
    /\ cfgHost = hosts
    /\ inputOpen = {}
    /\ kasaDevices = EmptyDict
    /\ cfgKey = keys
    /\ savedKey = keys
    /\ connections = EmptyDict
    /\ sessions = <<>>
    /\ online = <<>>
    /\ thr = [t \in Threads |-> IdleThread]
    /\ rt = [n \in DeviceNames |-> NoRoundTrip]
    /\ lastOp = [k \in {"kasa", "lgtv"} |-> "other"]
    /\ event = NoEvent

InitAdapterState(keys) ==
    InitAdapterStateWith(keys, [n \in DeviceNames |-> IF n = "tv1" THEN "h1" ELSE "h2"])

Init ==
    /\ registered \in Registrations
    /\ configDoc \in DocShapes
    /\ configSlices \in SUBSET ClassNames
    /\ (configDoc # "table" => configSlices = {})
    /\ instanceCount = [c \in ClassNames |-> 0]
    /\ constructed = <<>>
    /\ created = <<>>
    /\ routes = <<>>
    /\ creates = 0
    /\ startups = <<>>
    /\ call = NoCall
    /\ InitAdapterState([n \in DeviceNames |-> NoKey])

Next == Create \/ Startup \/ Shutdown

Spec == Init /\ [][Next]_vars

----------------------------------------------------------------------------
(* SpecServe: an adapter of the repository, constructed by create().       *)
(* Lifecycle hooks run while no request is in flight (main.py calls start  *)
(* before serving and stop from the shutdown event).                       *)

HTTP_200_OK == 200
HTTP_400_BAD_REQUEST == 400
HTTP_500_INTERNAL_SERVER_ERROR == 500

AllIdle == \A t \in Threads : thr[t].pc = "idle"

HasLgtv == InstancesOf(LGTVAdapter) # {}
LgtvInst == constructed[CHOOSE i \in Instances : constructed[i].cls = LGTVAdapter]
HasKasa == InstancesOf(KasaAdapter) # {}

\* LGTVAdapter.devices: self.cfg['devices'] raises KeyError on an empty cfg
DevicesRaises == LgtvInst.cfg = "empty"

\* a.startup() on one instance
HookStartup(i) ==
    /\ AllIdle
    /\ startups[i] < MaxStartupCalls
    /\ LET k == Kind(constructed[i].cls)
       IN  /\ \E devs \in KasaDeviceMaps, fail \in BOOLEAN :
                /\ (fail => StartupMayRaise(constructed[i].cls))
                /\ (k # "kasa" => devs = kasaDevices)
                /\ kasaDevices' = devs
                /\ event' = [NoEvent EXCEPT !.op = "startup", !.who = k,
                                            !.prev = lastOp[k],
                                            !.hadStartup = (startups[i] > 0),
                                            !.raised = fail]
           /\ lastOp' = [lastOp EXCEPT ![k] = "other"]
    /\ startups' = [startups EXCEPT ![i] = @ + 1]
    /\ UNCHANGED <<cmdVars, regVars, call, tvVars>>

\* a.shutdown() on one instance
HookShutdown(i) ==
    /\ AllIdle
    /\ LET k == Kind(constructed[i].cls)
           raises == k = "lgtv" /\ LGTVShutdownRaises(constructed[i])
       IN  /\ IF k = "lgtv" THEN LGTVShutdown(constructed[i])
                            ELSE UNCHANGED <<sessions, connections, rt>>
           /\ event' = [NoEvent EXCEPT !.op = "shutdown", !.who = k,
                                       !.prev = lastOp[k],
                                       !.hadStartup = (startups[i] > 0),
                                       !.raised = raises,
                                       !.closed = IF k = "lgtv" /\ ~raises
                                                  THEN ClosedBy(connections) ELSE {}]
           /\ lastOp' = [lastOp EXCEPT ![k] = "shutdown"]
    /\ UNCHANGED <<cmdVars, regVars, startups, call, kasaDevices, cfgKey, savedKey, online, thr>>

----------------------------------------------------------------------------
(* LGTVAdapter._device_connect *)

\* what WebOSClient.connect and WebOSClient.register can do
ConnectEvents == {"ok", "TimeoutError", "OSError"}
RegisterEvents == {"registered", "ended", "FailedToRegister", "TimeoutError", "Error"}

\* result of _device_connect: a commander, an LGTVException with its
\* message, or another exception passed on by `raise e`
\* (_NoTimeoutClause: without the `except TimeoutError` branch)
DeviceConnectOutcome_NoTimeoutClause(connectEv, registerEv) ==
    IF connectEv = "TimeoutError" THEN [kind |-> "Exception", msg |-> ""]
    ELSE IF connectEv = "OSError" THEN [kind |-> "Exception", msg |-> ""]
    ELSE CASE registerEv = "registered" -> [kind |-> "commander", msg |-> ""]
           [] registerEv = "ended" -> [kind |-> "LGTVException", msg |-> "Could not pair"]
           [] registerEv = "FailedToRegister" -> [kind |-> "LGTVException", msg |-> "Failed to pair"]
           [] registerEv = "TimeoutError" -> [kind |-> "Exception", msg |-> ""]
           [] OTHER -> [kind |-> "Exception", msg |-> ""]
DeviceConnectOutcome(connectEv, registerEv) ==
    IF connectEv = "TimeoutError" THEN [kind |-> "LGTVException", msg |-> "Timed out"]
    ELSE IF connectEv = "OSError" THEN [kind |-> "Exception", msg |-> ""]
    ELSE CASE registerEv = "registered" -> [kind |-> "commander", msg |-> ""]
           [] registerEv = "ended" -> [kind |-> "LGTVException", msg |-> "Could not pair"]
           [] registerEv = "FailedToRegister" -> [kind |-> "LGTVException", msg |-> "Failed to pair"]
           [] registerEv = "TimeoutError" -> [kind |-> "LGTVException", msg |-> "Timed out"]
           [] OTHER -> [kind |-> "Exception", msg |-> ""]

\* why the attempt failed, as the device saw it
Fault(connectEv, registerEv) ==
    IF connectEv = "TimeoutError" THEN "timeout"
    ELSE IF connectEv # "ok" THEN "other"
    ELSE CASE registerEv = "registered" -> "none"
           [] registerEv \in {"ended", "FailedToRegister"} -> "pairing"
           [] registerEv = "TimeoutError" -> "timeout"
           [] OTHER -> "other"

----------------------------------------------------------------------------
(* connect_device, PUT /lgtv/{name}/connect, in three steps *)

\* self.devices[name]: the entry of the configuration as the adapter sees
\* it.  self.cfg is the object config.get returned to create(), that is the
\* sub-table of the loaded document itself, so a key written through
\* config.get(...) in connect_device shows here.
\* (_Unpaired: the adapter holds a copy made before any key was written)
DeviceData_Unpaired(name) == [host |-> cfgHost[name], key |-> NoKey]
DeviceData(name) == [host |-> cfgHost[name], key |-> cfgKey[name]]

\* lines 305-311: the name check and _device_connect, which is handed
\* data.get('key')
ConnectDevice(t, name) ==
    /\ HasLgtv
    /\ thr[t].pc = "idle"
    /\ lastOp' = [lastOp EXCEPT !["lgtv"] = "other"]
    /\ LET ev0 == [NoEvent EXCEPT !.op = "connect_device", !.who = t, !.name = name,
                                  !.prev = lastOp["lgtv"]]
       IN
       IF DevicesRaises
       THEN /\ event' = [ev0 EXCEPT !.status = HTTP_500_INTERNAL_SERVER_ERROR, !.raised = TRUE]
            /\ UNCHANGED <<sessions, thr>>
       ELSE IF name \notin DeviceNames
       THEN /\ event' = [ev0 EXCEPT !.status = HTTP_400_BAD_REQUEST, !.msg = "has not been configured"]
            /\ UNCHANGED <<sessions, thr>>
       ELSE \E connectEv \in ConnectEvents, registerEv \in RegisterEvents :
            LET out == DeviceConnectOutcome(connectEv, registerEv)
                opened == connectEv = "ok"
                ev1 == [ev0 EXCEPT !.cause = Fault(connectEv, registerEv),
                                   !.key = DeviceData(name).key]
            IN  /\ (connectEv # "ok" => registerEv = "registered")
                /\ (opened => Len(sessions) < MaxSessions)
                /\ sessions' = IF opened
                               THEN Append(sessions, [name |-> name, status |-> "open"])
                               ELSE sessions
                /\ IF out.kind = "commander"
                   THEN /\ thr' = [thr EXCEPT ![t] = [IdleThread EXCEPT
                                      !.pc = "persist", !.name = name,
                                      !.sess = Len(sessions) + 1, !.key = TvKey[name]]]
                        /\ event' = ev1
                   ELSE /\ thr' = thr
                        /\ event' = IF out.kind = "LGTVException"
                                    THEN [ev1 EXCEPT !.status = HTTP_400_BAD_REQUEST,
                                                     !.msg = out.msg]
                                    ELSE [ev1 EXCEPT !.status = HTTP_500_INTERNAL_SERVER_ERROR,
                                                     !.raised = TRUE]
    /\ UNCHANGED <<cmdVars, regVars, startups, call, kasaDevices, cfgKey, savedKey,
                   connections, online, rt>>

\* where the handler goes after config.save(): on to the store, or out
\* with the error save raised
\* (_Swallowed: the error of save is caught and ignored)
AfterSave_Swallowed(saveOk) == "store"
AfterSave(saveOk) == IF saveOk THEN "store" ELSE "raise"

\* lines 313-316: write the key into the configuration entry and save
PersistKey(t) ==
    /\ thr[t].pc = "persist"
    /\ lastOp' = [lastOp EXCEPT !["lgtv"] = "other"]
    /\ cfgKey' = [cfgKey EXCEPT ![thr[t].name] = thr[t].key]
    /\ \E saveOk \in BOOLEAN :
         LET ev == [NoEvent EXCEPT !.op = "persist", !.who = t, !.name = thr[t].name,
                                   !.prev = lastOp["lgtv"], !.sess = thr[t].sess,
                                   !.wrote = TRUE, !.saved = saveOk]
         IN  /\ savedKey' = IF saveOk THEN cfgKey' ELSE savedKey
             /\ IF AfterSave(saveOk) = "store"
                THEN /\ thr' = [thr EXCEPT ![t].pc = "store", ![t].wrote = TRUE,
                                           ![t].saved = saveOk]
                     /\ event' = ev
                ELSE /\ thr' = [thr EXCEPT ![t] = IdleThread]
                     /\ event' = [ev EXCEPT !.status = HTTP_500_INTERNAL_SERVER_ERROR,
                                            !.raised = TRUE, !.cause = "saveFailed"]
    /\ UNCHANGED <<cmdVars, regVars, startups, call, kasaDevices, connections, sessions,
                   online, rt>>

\* the round-trip bookkeeping of a name when session s is stored for it
AfterConnect(r, s) ==
    IF r.stage = 2 THEN [r EXCEPT !.stage = 3, !.second = s]
    ELSE [stage |-> 1, first |-> s, second |-> 0]

\* self._connections[name] = commander
StoreConnection(conn, name, s) ==
    [n \in DOMAIN conn \cup {name} |-> IF n = name THEN s ELSE conn[n]]

\* lines 318-320: store the commander and answer "Connected"
StoreSession(t) ==
    /\ thr[t].pc = "store"
    /\ lastOp' = [lastOp EXCEPT !["lgtv"] = "other"]
    /\ connections' = StoreConnection(connections, thr[t].name, thr[t].sess)
    /\ rt' = [rt EXCEPT ![thr[t].name] = AfterConnect(@, thr[t].sess)]
    /\ event' = [NoEvent EXCEPT !.op = "connected", !.who = t, !.name = thr[t].name,
                                !.prev = lastOp["lgtv"], !.sess = thr[t].sess,
                                !.status = HTTP_200_OK, !.msg = "Connected",
                                !.wrote = thr[t].wrote, !.saved = thr[t].saved]
    /\ thr' = [thr EXCEPT ![t] = IdleThread]
    /\ UNCHANGED <<cmdVars, regVars, startups, call, kasaDevices, cfgKey, savedKey,
                   sessions, online>>

----------------------------------------------------------------------------
(* Kasa: PUT /kasa/{alias}/on and /off *)

DevicePower(alias, on) ==
    /\ HasKasa
    /\ lastOp' = [lastOp EXCEPT !["kasa"] = "other"]
    /\ LET ev0 == [NoEvent EXCEPT !.op = "device_power", !.who = "kasa", !.name = alias,
                                  !.prev = lastOp["kasa"]]
       IN  IF alias \notin DOMAIN kasaDevices
           THEN /\ event' = [ev0 EXCEPT !.status = HTTP_400_BAD_REQUEST,
                                        !.msg = "Could not find device"]
                /\ UNCHANGED kasaDevices
           ELSE \E ok \in BOOLEAN :
                IF ok
                THEN /\ kasaDevices' = [kasaDevices EXCEPT ![alias].is_on = on]
                     /\ event' = [ev0 EXCEPT !.status = HTTP_200_OK,
                                             !.msg = IF on THEN "Turned on" ELSE "Turned off",
                                             !.calls = <<IF on THEN "turn_on" ELSE "turn_off",
                                                         "update">>]
                ELSE /\ UNCHANGED kasaDevices
                     /\ event' = [ev0 EXCEPT !.status = HTTP_500_INTERNAL_SERVER_ERROR,
                                             !.raised = TRUE,
                                             !.calls = <<IF on THEN "turn_on" ELSE "turn_off">>]
    /\ UNCHANGED <<cmdVars, regVars, startups, call, tvVars>>

DeviceOn(alias) == DevicePower(alias, TRUE)
DeviceOff(alias) == DevicePower(alias, FALSE)

----------------------------------------------------------------------------

\* the state create() leaves.  The two adapters of the repository share no
\* state (KasaAdapter never reads the configuration, LGTVAdapter never
\* touches a Kasa device), so each is served on its own: the adapters
\* directory holds one of them, with or without a configuration slice.
InitCreated ==
    /\ registered \in {<<KasaAdapter>>, <<LGTVAdapter>>}
    /\ configDoc = "table"
    /\ configSlices \in SUBSET {registered[1]}
    /\ LET st == CreateLoop(registered, Document(configDoc, configSlices), 1,
                    [count |-> [c \in ClassNames |-> 0], constructed |-> <<>>,
                     created |-> <<>>, routes |-> <<>>, raised |-> FALSE])
       IN  /\ instanceCount = st.count
           /\ constructed = st.constructed
           /\ created = st.created
           /\ routes = st.routes
           /\ startups = [i \in 1..Len(st.constructed) |-> 0]
           /\ call = [op |-> "create", raised |-> st.raised, order |-> <<>>]
    /\ creates = 1

InitServe == InitCreated /\ InitAdapterState([n \in DeviceNames |-> NoKey])

NextServe ==
    \/ \E i \in Instances : HookStartup(i)
    \/ \E i \in Instances : HookShutdown(i)
    \/ \E t \in Threads, name \in RequestNames : ConnectDevice(t, name)
    \/ \E t \in Threads : PersistKey(t)
    \/ \E t \in Threads : StoreSession(t)
    \/ \E alias \in KasaAliases : DeviceOn(alias)
    \/ \E alias \in KasaAliases : DeviceOff(alias)

SpecServe == InitServe /\ [][NextServe]_vars

----------------------------------------------------------------------------
(* SpecStatus: GET /lgtv, the list of TVs with their online status *)

\* list.remove(x): drops the first occurrence only
RECURSIVE RemoveFirst(_, _)
RemoveFirst(s, x) ==
    IF s = <<>> THEN s
    ELSE IF Head(s) = x THEN Tail(s)
    ELSE <<Head(s)>> \o RemoveFirst(Tail(s), x)

\* one iteration of the loop of _update_online_status
UpdateOne(onl, n, pingOk) ==
    IF pingOk THEN Append(onl, n)
    ELSE IF n \in Range(onl) THEN RemoveFirst(onl, n)
    ELSE onl

\* _update_online_status over the devices from the i-th on
RECURSIVE UpdateOnlineStatus(_, _, _)
UpdateOnlineStatus(onl, pings, i) ==
    IF i > Len(DeviceOrder) THEN onl
    ELSE UpdateOnlineStatus(UpdateOne(onl, DeviceOrder[i], pings[DeviceOrder[i]]),
                            pings, i + 1)

\* device_summary
DeviceSummary(n, onl) ==
    [paired |-> DeviceData(n).key # NoKey,
     online |-> n \in Range(onl),
     connected |-> n \in DOMAIN connections]

\* get_devices; pings are the results of _ping_device_unix
GetDevices(pings) ==
    /\ HasLgtv
    /\ lastOp' = [lastOp EXCEPT !["lgtv"] = "other"]
    /\ LET ev0 == [NoEvent EXCEPT !.op = "get_devices", !.who = "lgtv",
                                  !.prev = lastOp["lgtv"]]
       IN  IF DevicesRaises
           THEN /\ event' = [ev0 EXCEPT !.status = HTTP_500_INTERNAL_SERVER_ERROR,
                                        !.raised = TRUE]
                /\ UNCHANGED online
           ELSE /\ Len(online) + Cardinality({n \in DeviceNames : pings[n]}) <= MaxOnline
                /\ online' = UpdateOnlineStatus(online, pings, 1)
                /\ event' = [ev0 EXCEPT !.status = HTTP_200_OK, !.pings = pings,
                                        !.summary = [n \in DeviceNames |->
                                                        DeviceSummary(n, online')]]
    /\ UNCHANGED <<cmdVars, regVars, startups, call, kasaDevices, cfgKey, savedKey,
                   connections, sessions, thr, rt>>

\* the LGTVAdapter constructed, over a configuration file in which any of
\* the TVs may already be paired
InitStatus ==
    /\ InitCreated
    /\ registered = <<LGTVAdapter>>
    /\ \E keys \in [DeviceNames -> {NoKey, "k1", "k2"}] :
          /\ \A n \in DeviceNames : keys[n] \in {NoKey, TvKey[n]}
          /\ InitAdapterState(keys)

NextStatus == \E pings \in [DeviceNames -> BOOLEAN] : GetDevices(pings)

SpecStatus == InitStatus /\ [][NextStatus]_vars

----------------------------------------------------------------------------
(* Properties *)

AllInstances == [i \in 1..Len(constructed) |-> i]

\* C1: for every adapter class at most one instance is ever constructed and
\* its instance count never exceeds 1; a create() made when the classes are
\* already instantiated fails with an error.
C1_SingleInstance ==
    /\ \A cls \in ClassNames :
          /\ Cardinality(InstancesOf(cls)) <= 1
          /\ instanceCount[cls] <= 1
    /\ (call.op = "create" /\ creates > 1 /\ registered # <<>>) => call.raised

C1_Witness ==
    /\ call.op = "create" /\ call.raised /\ creates = 2
    /\ Len(routes) > Len(constructed)
    /\ \E cls \in ClassNames : instanceCount[cls] = 1

\* the instances of the instance table in discovery order (instances are
\* numbered as create() constructs them, which is the order of discovery)
TableInDiscoveryOrder ==
    LET insts == Range(DictValues(created))
    IN  CHOOSE s \in [1..Cardinality(insts) -> insts] :
            \A j, k \in 1..Cardinality(insts) : j < k => s[j] < s[k]

\* C2: startup() of the registry invokes startup() on the instantiated
\* adapters in discovery order and stops at the first one that raises: the
\* instances invoked are the first k of the table in discovery order, and
\* all of them when none raised.
C2_StartupInDiscoveryOrder ==
    call.op = "startup" =>
        /\ call.order = SubSeq(TableInDiscoveryOrder, 1, Len(call.order))
        /\ (~call.raised => call.order = TableInDiscoveryOrder)

\* C3: shutdown() of the registry invokes shutdown() on every instance that
\* create() constructed, in discovery order, skipping none.
C3_ShutdownReachesEveryInstance ==
    call.op = "shutdown" => call.order = AllInstances

\* C6: startup() is invoked at most once on every adapter instance, under
\* any sequence of create(), startup() and shutdown() calls.
C6_StartupAtMostOnce ==
    \A i \in Instances : startups[i] <= 1

\* C4: shutdown() on a constructed KasaAdapter or LGTVAdapter whose startup()
\* was never invoked does not raise, whatever handlers ran before it.
C4_ShutdownWithoutStartup ==
    (event.op = "shutdown" /\ ~event.hadStartup) => ~event.raised

C4_Witness ==
    /\ event.op = "shutdown" /\ ~event.hadStartup /\ event.who = "lgtv"
    /\ event.closed # {}
    /\ ~event.raised

\* C5: a shutdown() that directly follows a shutdown() of the same adapter
\* changes nothing, closes no session and does not raise.
C5_ShutdownIdempotent ==
    [][(event'.op = "shutdown" /\ event'.prev = "shutdown") =>
          /\ ~event'.raised
          /\ event'.closed = {}
          /\ UNCHANGED <<kasaDevices, connections, sessions, cfgKey, savedKey, online>>]_vars

C5_Witness ==
    /\ event.op = "shutdown" /\ event.prev = "shutdown" /\ event.who = "lgtv"
    /\ \E i \in 1..Len(sessions) : sessions[i].status = "closed"
    /\ connections = EmptyDict

\* C7: after connect(name), disconnect-all, connect(name), all successful,
\* the store holds one entry for the name, bound to the session of the
\* second connect, and the session of the first connect is closed.
C7_Reconnect ==
    \A n \in DeviceNames :
        rt[n].stage = 3 =>
            /\ Cardinality({m \in DOMAIN connections : m = n}) = 1
            /\ connections[n] = rt[n].second
            /\ rt[n].first # rt[n].second
            /\ sessions[rt[n].first].status = "closed"

C7_Witness ==
    \E n \in DeviceNames : rt[n].stage = 3 /\ sessions[rt[n].second].status = "open"

\* C8: when connect_device answers "Connected" the key of the session has
\* been written into the device's configuration entry and config.save has
\* completed; when the save fails the handler does not answer success and
\* the session is not in the store.
C8_SaveBeforeSuccess ==
    /\ event.op = "connected" =>
          /\ event.wrote /\ event.saved
          /\ cfgKey[event.name] = TvKey[event.name]
          /\ savedKey[event.name] = TvKey[event.name]
    /\ event.cause = "saveFailed" =>
          /\ event.status # HTTP_200_OK
          /\ event.sess \notin ClosedBy(connections)

C8_Witness ==
    /\ event.op = "connected" /\ event.status = HTTP_200_OK
    /\ connections[event.name] = event.sess
    /\ \E n \in DeviceNames : cfgKey[n] # savedKey[n]

\* C9: a connect to a configured TV that fails on a transport timeout or on
\* a registration that never reaches the registered status is answered with
\* 400 and a message that tells the two apart, and leaves the session store,
\* the stored credentials and every existing session as they were.
C9_FailedConnectLeavesState ==
    [][(event'.op = "connect_device" /\ event'.cause \in {"timeout", "pairing"}) =>
          /\ event'.status = HTTP_400_BAD_REQUEST
          /\ event'.msg \in {"Timed out", "Could not pair", "Failed to pair"}
          /\ (event'.cause = "timeout" <=> event'.msg = "Timed out")
          /\ connections' = connections
          /\ cfgKey' = cfgKey /\ savedKey' = savedKey
          /\ \A i \in 1..Len(sessions) : sessions'[i] = sessions[i]]_vars

C9_Witness ==
    /\ event.op = "connect_device" /\ event.cause = "pairing"
    /\ event.status = HTTP_400_BAD_REQUEST
    /\ \E n \in DOMAIN connections : n # event.name

\* C10: after every list-TV-devices request a configured device is reported
\* online exactly when its latest reachability probe succeeded.
C10_OnlineIffLastProbe ==
    (event.op = "get_devices" /\ event.status = HTTP_200_OK) =>
        \A n \in DeviceNames : event.summary[n].online <=> event.pings[n]

----------------------------------------------------------------------------
(* SpecDiscover: POST /lgtv/discover and _separate_new_hosts *)

Hosts == {"h1", "h2", "h3"}

HostLists == UNION {[1..n -> Hosts] : n \in 0..MaxHosts}

\* the devices loop of the dict comprehension for one host h
RECURSIVE MatchDevices(_, _, _, _)
MatchDevices(acc, h, hostOf, i) ==
    IF i > Len(DeviceOrder) THEN acc
    ELSE LET n == DeviceOrder[i]
         IN  MatchDevices(IF h = hostOf[n] THEN StoreConnection(acc, n, h) ELSE acc,
                          h, hostOf, i + 1)

\* existing_hosts = {n: h for h in hosts for n, d in devices.items() if h == d['host']}
RECURSIVE ExistingHosts(_, _, _, _)
ExistingHosts(acc, hosts, hostOf, i) ==
    IF i > Len(hosts) THEN acc
    ELSE ExistingHosts(MatchDevices(acc, hosts[i], hostOf, 1), hosts, hostOf, i + 1)

DictValueSet(d) == {d[k] : k \in DOMAIN d}

\* new_hosts = [h for h in hosts if h not in existing_hosts.values()]
\* (_ByKeys: membership tested on the dict itself, that is on its keys)
NewHosts_ByKeys(hosts, existing) ==
    LET IsNew(h) == h \notin DOMAIN existing IN SelectSeq(hosts, IsNew)
NewHosts(hosts, existing) ==
    LET IsNew(h) == h \notin DictValueSet(existing) IN SelectSeq(hosts, IsNew)

\* _separate_new_hosts
SeparateNewHosts(hosts, hostOf) ==
    LET existing == ExistingHosts(EmptyDict, hosts, hostOf, 1)
    IN  [existing |-> existing, new |-> NewHosts(hosts, existing)]

\* discover_device; hosts are the hosts WebOSClient.discover() found.  The
\* comprehension reads self.devices once per host, so an empty cfg only
\* raises when at least one host was found.
DiscoverDevice(hosts) ==
    /\ HasLgtv
    /\ lastOp' = [lastOp EXCEPT !["lgtv"] = "other"]
    /\ LET ev0 == [NoEvent EXCEPT !.op = "discover", !.who = "lgtv",
                                  !.prev = lastOp["lgtv"], !.hosts = hosts]
       IN  IF DevicesRaises /\ hosts # <<>>
           THEN event' = [ev0 EXCEPT !.status = HTTP_500_INTERNAL_SERVER_ERROR,
                                     !.raised = TRUE]
           ELSE LET r == SeparateNewHosts(hosts, cfgHost)
                IN  event' = [ev0 EXCEPT !.status = HTTP_200_OK,
                                         !.existing = r.existing,
                                         !.newHosts = r.new]
    /\ UNCHANGED <<cmdVars, regVars, startups, call, kasaDevices, tvVars>>

\* the LGTVAdapter constructed over any assignment of hosts to the TVs
InitDiscover ==
    /\ InitCreated
    /\ registered = <<LGTVAdapter>>
    /\ \E hostOf \in [DeviceNames -> Hosts] :
          InitAdapterStateWith([n \in DeviceNames |-> NoKey], hostOf)

NextDiscover == \E hosts \in HostLists : DiscoverDevice(hosts)

SpecDiscover == InitDiscover /\ [][NextDiscover]_vars

\* C11: _separate_new_hosts puts every host that equals a configured
\* device's address into existing under that device's name, every other
\* host into new, and no host into both.
C11_Partition ==
    (event.op = "discover" /\ event.status = HTTP_200_OK /\ configSlices # {}) =>
        \A i \in 1..Len(event.hosts) :
            LET h == event.hosts[i]
            IN  /\ \A n \in DeviceNames :
                      cfgHost[n] = h => (n \in DOMAIN event.existing /\ event.existing[n] = h)
                /\ (\A n \in DeviceNames : cfgHost[n] # h) => h \in Range(event.newHosts)
                /\ ~(h \in DictValueSet(event.existing) /\ h \in Range(event.newHosts))

C11_Witness ==
    /\ event.op = "discover" /\ event.status = HTTP_200_OK
    /\ Len(event.hosts) = 3
    /\ DOMAIN event.existing = DeviceNames
    /\ event.newHosts # <<>>

----------------------------------------------------------------------------
(* SpecCommand: POST /lgtv/{name}/command and LGTVCommander.send_command *)

InputCommand == {"UP", "DOWN", "LEFT", "RIGHT", "OK", "BACK", "EXIT", "HOME", "DASH", "INFO"}
MediaCommand == {"VOLUME_UP", "VOLUME_DOWN", "GET_VOLUME", "SET_VOLUME", "MUTE",
                 "PLAY", "PAUSE", "STOP", "REWIND", "FAST_FORWARD"}
AppCommand == {"LAUNCH", "LIST_APPS", "GET_CURRENT"}
SystemCommand == {"NOTIFY", "POWER_OFF"}
GenericCommand == InputCommand \cup MediaCommand \cup AppCommand \cup SystemCommand

\* an object that is an instance of none of the four enums
Unsupported == "UNSUPPORTED"

\* the commands requests are drawn from: one of every category and every
\* command with a coercion of its own
RequestCommands == {"UP", "MUTE", "SET_VOLUME", "LAUNCH", "POWER_OFF"}

\* payload texts and application titles, as character sequences
TextTrue == <<"T", "r", "u", "e">>
TextTrueLower == <<"t", "r", "u", "e">>
TextTv == <<"T", "V">>
TitleLgTv == <<"L", "G", " ", "T", "V">>

\* message: Optional[str]; <<>> is None, <<text>> is a text
Payloads == {<<>>} \cup {<<x>> : x \in {TextTrue, TextTrueLower, <<"7">>, <<"t", "v">>, TextTv}}

\* what ApplicationControl.list_apps() can answer
AppLists == {<<>>,
             <<[title |-> TitleLgTv], [title |-> TextTv]>>,
             <<[title |-> TextTv], [title |-> TitleLgTv]>>}

\* the if/elif chain on the command's class: the sub-controller, or the
\* error of the else branch
\* (_MediaDefault: the else branch falls back to the media controller)
HandlerFor_MediaDefault(cmd) ==
    CASE cmd \in InputCommand -> "_inp"
      [] cmd \in MediaCommand -> "_media"
      [] cmd \in AppCommand -> "_app"
      [] cmd \in SystemCommand -> "_system"
      [] OTHER -> "_media"
HandlerFor(cmd) ==
    CASE cmd \in InputCommand -> "_inp"
      [] cmd \in MediaCommand -> "_media"
      [] cmd \in AppCommand -> "_app"
      [] cmd \in SystemCommand -> "_system"
      [] OTHER -> "NotImplementedError"

\* Python's `sub in text` on strings
Contains(text, sub) ==
    \E i \in 0..(Len(text) - Len(sub)) : SubSeq(text, i + 1, i + Len(sub)) = sub

DigitChars == <<"0", "1", "2", "3", "4", "5", "6", "7", "8", "9">>
IsDigit(c) == \E d \in 1..10 : DigitChars[d] = c
DigitVal(c) == (CHOOSE d \in 1..10 : DigitChars[d] = c) - 1

\* int(text) for the texts used here (decimal digits only); anything else
\* is a ValueError
IsInt(text) == text # <<>> /\ \A i \in 1..Len(text) : IsDigit(text[i])
RECURSIVE IntOf(_)
IntOf(text) ==
    IF text = <<>> THEN 0
    ELSE 10 * IntOf(SubSeq(text, 1, Len(text) - 1)) + DigitVal(text[Len(text)])

\* message == "True"
\* (_AnyCase: the comparison ignores case)
MuteArg_AnyCase(text) == Lower(text) = Lower(TextTrue)
MuteArg(text) == text = TextTrue

\* [x for x in apps if message in x["title"].lower()]
MatchingApps(apps, text) ==
    LET Match(x) == Contains(Lower(x.title), text) IN SelectSeq(apps, Match)

\* lines 131-138: the argument cmd_func is called with, the calls made to
\* work it out, and the exception raised on the way
Coerce(cmd, text, apps) ==
    CASE cmd = "SET_VOLUME" ->
            IF IsInt(text)
            THEN [error |-> "", pre |-> <<>>, arg |-> [NoArg EXCEPT !.type = "int", !.n = IntOf(text)]]
            ELSE [error |-> "ValueError", pre |-> <<>>, arg |-> NoArg]
      [] cmd = "LAUNCH" ->
            LET found == MatchingApps(apps, text)
            IN  IF found # <<>>
                THEN [error |-> "", pre |-> <<"list_apps">>,
                      arg |-> [NoArg EXCEPT !.type = "app", !.s = found[1].title]]
                ELSE [error |-> "IndexError", pre |-> <<"list_apps">>, arg |-> NoArg]
      [] cmd = "MUTE" ->
            [error |-> "", pre |-> <<>>, arg |-> [NoArg EXCEPT !.type = "bool", !.b = MuteArg(text)]]
      [] OTHER ->
            [error |-> "", pre |-> <<>>, arg |-> [NoArg EXCEPT !.type = "str", !.s = text]]

\* lines 105-123 of LGTVCommander.send_command on the commander stored for
\* name: the handler lookup and, for an Input command, connect_input()
BeginCommand(t, ev0, name, cmd, msg) ==
    LET sess == connections[name]
        ev1 == [ev0 EXCEPT !.sess = sess]
        run == [IdleThread EXCEPT !.pc = "dispatch", !.name = name, !.sess = sess,
                                  !.cmd = cmd, !.msg = msg]
        uncaught == IF ev0.body = "handler" THEN HTTP_500_INTERNAL_SERVER_ERROR ELSE 0
    IN  IF HandlerFor(cmd) = "NotImplementedError"
        THEN /\ event' = [ev1 EXCEPT !.op = "send_command_end", !.raised = TRUE,
                                     !.status = uncaught,
                                     !.error = "NotImplementedError"]
             /\ UNCHANGED <<thr, inputOpen>>
        ELSE IF HandlerFor(cmd) = "_inp"
        THEN \E ok \in BOOLEAN :
                IF ok
                THEN /\ inputOpen' = inputOpen \cup {sess}
                     /\ thr' = [thr EXCEPT ![t] = [run EXCEPT !.calls = <<"connect_input">>]]
                     /\ event' = [ev1 EXCEPT !.calls = <<"connect_input">>]
                ELSE /\ event' = [ev1 EXCEPT !.op = "send_command_end", !.raised = TRUE,
                                             !.status = uncaught,
                                             !.error = "DeviceError",
                                             !.cause = "connect_input",
                                             !.calls = <<"connect_input">>]
                     /\ UNCHANGED <<thr, inputOpen>>
        ELSE /\ thr' = [thr EXCEPT ![t] = run]
             /\ event' = ev1
             /\ UNCHANGED inputOpen

\* the handler send_command, lines 333-342, up to the dispatch; pydantic has
\* validated command.name as a member of GenericCommand
SendCommand(t, name, cmd, msg) ==
    /\ HasLgtv
    /\ thr[t].pc = "idle"
    /\ cmd \in GenericCommand
    /\ lastOp' = [lastOp EXCEPT !["lgtv"] = "other"]
    /\ LET ev0 == [NoEvent EXCEPT !.op = "send_command", !.who = t, !.name = name,
                                  !.prev = lastOp["lgtv"], !.cmd = cmd, !.payload = msg,
                                  !.body = "handler"]
       IN  IF name \notin DOMAIN connections
           THEN /\ event' = [ev0 EXCEPT !.op = "send_command_end",
                                        !.status = HTTP_400_BAD_REQUEST,
                                        !.msg = "has not been connected"]
                /\ UNCHANGED <<thr, inputOpen>>
           ELSE BeginCommand(t, ev0, name, cmd, msg)
    /\ UNCHANGED <<cfgHost, regVars, startups, call, kasaDevices, cfgKey, savedKey,
                   connections, sessions, online, rt>>

\* LGTVCommander.send_command called on a stored commander with an object
\* that is no member of the four enums (the annotation is not enforced)
CommanderSendCommand(t, name, msg) ==
    /\ HasLgtv
    /\ thr[t].pc = "idle"
    /\ name \in DOMAIN connections
    /\ lastOp' = [lastOp EXCEPT !["lgtv"] = "other"]
    /\ BeginCommand(t, [NoEvent EXCEPT !.op = "send_command", !.who = t, !.name = name,
                                       !.prev = lastOp["lgtv"], !.cmd = Unsupported,
                                       !.payload = msg, !.body = "direct"],
                    name, Unsupported, msg)
    /\ UNCHANGED <<cfgHost, regVars, startups, call, kasaDevices, cfgKey, savedKey,
                   connections, sessions, online, rt>>

\* lines 126-140: look the method up, coerce the message, call the method
Dispatch(t) ==
    /\ thr[t].pc = "dispatch"
    /\ lastOp' = [lastOp EXCEPT !["lgtv"] = "other"]
    /\ \E apps \in AppLists, ok \in BOOLEAN :
         LET c == thr[t]
             co == IF c.msg = <<>>
                   THEN [error |-> "", pre |-> <<>>, arg |-> NoArg]
                   ELSE Coerce(c.cmd, c.msg[1], apps)
             calls == c.calls \o co.pre \o (IF co.error = "" THEN <<c.cmd>> ELSE <<>>)
             ev == [NoEvent EXCEPT !.op = "send_command_end", !.who = t, !.name = c.name,
                                   !.prev = lastOp["lgtv"], !.sess = c.sess,
                                   !.cmd = c.cmd, !.payload = c.msg, !.apps = apps,
                                   !.arg = co.arg, !.calls = calls, !.body = "handler"]
         IN  /\ (apps # <<>> => (c.cmd = "LAUNCH" /\ c.msg # <<>>))
             /\ (co.error # "" => ok)
             /\ IF co.error # ""
                THEN /\ event' = [ev EXCEPT !.raised = TRUE, !.error = co.error,
                                            !.status = HTTP_500_INTERNAL_SERVER_ERROR]
                     /\ thr' = [thr EXCEPT ![t] = IdleThread]
                ELSE IF ~ok
                THEN /\ event' = [ev EXCEPT !.raised = TRUE, !.error = "DeviceError",
                                            !.cause = "cmd_func",
                                            !.status = HTTP_500_INTERNAL_SERVER_ERROR]
                     /\ thr' = [thr EXCEPT ![t] = IdleThread]
                ELSE IF c.cmd \in InputCommand
                THEN /\ event' = [ev EXCEPT !.op = "dispatch"]
                     /\ thr' = [thr EXCEPT ![t].pc = "finish", ![t].calls = calls]
                ELSE /\ event' = [ev EXCEPT !.status = HTTP_200_OK, !.body = "response"]
                     /\ thr' = [thr EXCEPT ![t] = IdleThread]
    /\ UNCHANGED <<cmdVars, regVars, startups, call, kasaDevices, cfgKey, savedKey,
                   connections, sessions, online, rt>>

\* lines 142-145 and the handler's return: disconnect_input() and the answer
DisconnectInput(t) ==
    /\ thr[t].pc = "finish"
    /\ lastOp' = [lastOp EXCEPT !["lgtv"] = "other"]
    /\ inputOpen' = inputOpen \ {thr[t].sess}
    /\ event' = [NoEvent EXCEPT !.op = "send_command_end", !.who = t, !.name = thr[t].name,
                                !.prev = lastOp["lgtv"], !.sess = thr[t].sess,
                                !.cmd = thr[t].cmd, !.payload = thr[t].msg,
                                !.calls = Append(thr[t].calls, "disconnect_input"),
                                !.status = HTTP_200_OK, !.body = "response"]
    /\ thr' = [thr EXCEPT ![t] = IdleThread]
    /\ UNCHANGED <<cfgHost, regVars, startups, call, kasaDevices, cfgKey, savedKey,
                   connections, sessions, online, rt>>

\* the LGTVAdapter with its configuration slice, after tv1 was connected
InitCommand ==
    /\ InitCreated
    /\ registered = <<LGTVAdapter>>
    /\ configSlices = {LGTVAdapter}
    /\ cfgHost = [n \in DeviceNames |-> IF n = "tv1" THEN "h1" ELSE "h2"]
    /\ inputOpen = {}
    /\ kasaDevices = EmptyDict
    /\ cfgKey = [n \in DeviceNames |-> IF n = "tv1" THEN TvKey[n] ELSE NoKey]
    /\ savedKey = cfgKey
    /\ sessions = <<[name |-> "tv1", status |-> "open"]>>
    /\ connections = StoreConnection(EmptyDict, "tv1", 1)
    /\ online = <<>>
    /\ thr = [t \in Threads |-> IdleThread]
    /\ rt = [n \in DeviceNames |-> IF n = "tv1" THEN AfterConnect(NoRoundTrip, 1)
                                                ELSE NoRoundTrip]
    /\ lastOp = [k \in {"kasa", "lgtv"} |-> "other"]
    /\ event = NoEvent

NextCommand ==
    \/ \E t \in Threads, name \in RequestNames, cmd \in RequestCommands, msg \in Payloads :
          SendCommand(t, name, cmd, msg)
    \/ \E t \in Threads, name \in RequestNames, msg \in Payloads :
          CommanderSendCommand(t, name, msg)
    \/ \E t \in Threads : Dispatch(t)
    \/ \E t \in Threads : DisconnectInput(t)

SpecCommand == InitCommand /\ [][NextCommand]_vars

----------------------------------------------------------------------------
(* Properties of the command router *)

\* the event ends a send_command call that reached the commander
CommandEnded == event.op = "send_command_end" /\ event.sess # 0

\* C12: an Input command is bracketed by connect_input before the
\* sub-controller call and disconnect_input after it on every path, also
\* when the sub-controller call fails; other categories do neither.
C12_InputBracketed ==
    CommandEnded =>
        IF event.cmd \in InputCommand
        THEN event.cause # "connect_input" =>
                event.calls = <<"connect_input", event.cmd, "disconnect_input">>
        ELSE /\ "connect_input" \notin Range(event.calls)
             /\ "disconnect_input" \notin Range(event.calls)

\* C13: mute with a payload text calls the sub-controller with true when the
\* text is exactly "True" and with false for every other text.
C13_MuteCoercion ==
    (CommandEnded /\ event.cmd = "MUTE" /\ event.payload # <<>>) =>
        /\ "MUTE" \in Range(event.calls)
        /\ event.arg.type = "bool"
        /\ event.arg.b = (event.payload[1] = TextTrue)

C13_Witness ==
    /\ CommandEnded /\ event.cmd = "MUTE"
    /\ event.payload = <<TextTrueLower>>
    /\ event.arg = [NoArg EXCEPT !.type = "bool"]
    /\ event.status = HTTP_200_OK

\* C14: launch resolves the payload to the first application whose title
\* contains it, ignoring the case of both, and with no such application
\* fails with the no-matching-application error without calling launch.
C14_LaunchResolves ==
    (CommandEnded /\ event.cmd = "LAUNCH" /\ event.payload # <<>>) =>
        LET Wanted(x) == Contains(Lower(x.title), Lower(event.payload[1]))
            wanted == SelectSeq(event.apps, Wanted)
        IN  IF wanted # <<>>
            THEN /\ "LAUNCH" \in Range(event.calls)
                 /\ event.arg = [NoArg EXCEPT !.type = "app", !.s = wanted[1].title]
            ELSE /\ "LAUNCH" \notin Range(event.calls)
                 /\ event.error = "NoMatchingApplication"

\* C15: a command of none of the four categories is never taken up: the
\* call raises the unsupported-command error before any sub-controller
\* call and without connect_input.
C15_UnsupportedRaises ==
    /\ \A t \in Threads : thr[t].pc # "idle" => thr[t].cmd \in GenericCommand
    /\ (CommandEnded /\ event.cmd \notin GenericCommand) =>
          /\ event.raised /\ event.error = "NotImplementedError"
          /\ event.calls = <<>>

C15_Witness ==
    /\ CommandEnded /\ event.cmd = Unsupported
    /\ event.payload # <<>>
    /\ event.error = "NotImplementedError"

\* C16: at most one of the handlers that touch the adapter's state is in
\* progress at any time.
C16_MutualExclusion ==
    Cardinality({t \in Threads : thr[t].pc # "idle"}) <= 1

\* C20: no error raised while a TV handler handles a request leaves the
\* handler; each is answered with a non-2xx status and a message.
C20_ErrorsCaught ==
    (event.op = "send_command_end" /\ event.body # "direct") =>
        /\ ~event.raised
        /\ (event.error # "" => (event.status >= HTTP_400_BAD_REQUEST /\ event.msg # ""))

----------------------------------------------------------------------------
(* SpecKasa: the endpoints of KasaAdapter that address one device *)

HTTP_422_UNPROCESSABLE_ENTITY == 422

\* the declared ranges of the path parameters
HueMax == 360
PercentMax == 100
ColourTempMin == 2500
ColourTempMax == 9000
BrightnessMin == 0
BrightnessMax == 100

\* capability flags of the two devices: a plug and a colour bulb
IsDimmable(alias) == alias = "bulb"
IsColor(alias) == alias = "bulb"
IsVariableColorTemp(alias) == alias = "bulb"

\* colour_spec.split(',')
RECURSIVE SplitFrom(_, _, _, _)
SplitFrom(text, i, cur, acc) ==
    IF i > Len(text) THEN Append(acc, cur)
    ELSE IF text[i] = "," THEN SplitFrom(text, i + 1, <<>>, Append(acc, cur))
    ELSE SplitFrom(text, i + 1, Append(cur, text[i]), acc)

Split(text) == SplitFrom(text, 1, <<>>, <<>>)

\* the Path regex ^\d{1,3},\d{1,3},\d{1,3}$
MatchesColourRegex(text) ==
    LET parts == Split(text)
    IN  /\ Len(parts) = 3
        /\ \A i \in 1..3 : IsInt(parts[i]) /\ Len(parts[i]) <= 3

\* h, s, v = [int(i) for i in colour_spec.split(',')]
ParseColour(text) == LET parts == Split(text) IN [i \in 1..Len(parts) |-> IntOf(parts[i])]

\* colour specs of requests, as character sequences
ColourSpecs ==
    {<<"1", "0", ",", "2", "0", ",", "3", "0">>,                      \* 10,20,30
     <<"3", "6", "1", ",", "2", "0", ",", "3", "0">>,                 \* 361,20,30
     <<"1", "0", ",", "1", "0", "1", ",", "3", "0">>,                 \* 10,101,30
     <<"1", "0", ",", "2", "0", ",", "9", "9", "9">>,                 \* 10,20,999
     <<"3", "6", "0", ",", "1", "0", "0", ",", "1", "0", "0">>,       \* 360,100,100
     <<"1", "0", ",", "2", "0">>}                                     \* 10,20

ColourTemps == {ColourTempMin - 1, ColourTempMin, ColourTempMax, ColourTempMax + 1}
Brightnesses == (BrightnessMin - 1)..(BrightnessMax + 1)

KasaEvent(op, alias) ==
    [NoEvent EXCEPT !.op = op, !.who = "kasa", !.name = alias, !.prev = lastOp["kasa"]]

NotFound(ev) == [ev EXCEPT !.status = HTTP_400_BAD_REQUEST, !.msg = "Could not find device"]

KasaFrame ==
    /\ lastOp' = [lastOp EXCEPT !["kasa"] = "other"]
    /\ UNCHANGED <<cmdVars, regVars, startups, call, kasaDevices, tvVars>>

\* kasa_single_device, GET /kasa/{alias}
KasaSingleDevice(alias) ==
    /\ HasKasa
    /\ LET ev0 == KasaEvent("kasa_single_device", alias)
       IN  IF alias \notin DOMAIN kasaDevices
           THEN event' = [ev0 EXCEPT !.status = HTTP_200_OK, !.body = "{}"]
           ELSE \E ok \in BOOLEAN :
                event' = IF ok
                         THEN [ev0 EXCEPT !.status = HTTP_200_OK, !.body = "device",
                                          !.calls = <<"update">>]
                         ELSE [ev0 EXCEPT !.status = HTTP_500_INTERNAL_SERVER_ERROR,
                                          !.raised = TRUE, !.calls = <<"update">>]
    /\ KasaFrame

\* the answer of a request whose path parameter fails FastAPI's validation
Invalid(ev) == [ev EXCEPT !.status = HTTP_422_UNPROCESSABLE_ENTITY, !.body = "detail"]

\* the outcome of a device call made by a handler: both calls made and the
\* answer given, or the call's exception leaving the handler
AfterDeviceCall(ev, fn, ok, msg) ==
    IF ok THEN [ev EXCEPT !.status = HTTP_200_OK, !.msg = msg, !.calls = <<fn, "update">>]
    ELSE [ev EXCEPT !.status = HTTP_500_INTERNAL_SERVER_ERROR, !.raised = TRUE,
                    !.calls = <<fn>>]

\* set_bulb_colour, PUT /kasa/{alias}/colour/{colour_spec}
SetBulbColour(alias, colour_spec) ==
    /\ HasKasa
    /\ LET ev0 == [KasaEvent("set_bulb_colour", alias) EXCEPT !.payload = <<colour_spec>>]
       IN  IF ~MatchesColourRegex(colour_spec)
           THEN event' = Invalid(ev0)
           ELSE IF alias \notin DOMAIN kasaDevices
           THEN event' = NotFound(ev0)
           ELSE IF ~IsColor(alias)
           THEN event' = [ev0 EXCEPT !.status = HTTP_400_BAD_REQUEST,
                                     !.msg = "Cannot set the colour"]
           ELSE \E ok \in BOOLEAN :
                event' = AfterDeviceCall(
                            [ev0 EXCEPT !.arg = [NoArg EXCEPT !.type = "hsv",
                                                              !.s = ParseColour(colour_spec)]],
                            "set_hsv", ok, "Set the colour")
    /\ KasaFrame

\* set_bulb_colour_temp, PUT /kasa/{alias}/colour_temp/{colour_temp}
SetBulbColourTemp(alias, colour_temp) ==
    /\ HasKasa
    /\ LET ev0 == [KasaEvent("set_bulb_colour_temp", alias) EXCEPT
                        !.arg = [NoArg EXCEPT !.type = "int", !.n = colour_temp]]
       IN  IF colour_temp < ColourTempMin \/ colour_temp > ColourTempMax
           THEN event' = Invalid(ev0)
           ELSE IF alias \notin DOMAIN kasaDevices
           THEN event' = NotFound(ev0)
           ELSE IF ~IsVariableColorTemp(alias)
           THEN event' = [ev0 EXCEPT !.status = HTTP_400_BAD_REQUEST,
                                     !.msg = "Cannot set the colour temperature"]
           ELSE \E ok \in BOOLEAN :
                event' = AfterDeviceCall(ev0, "set_color_temp", ok,
                                         "Set the colour temperature")
    /\ KasaFrame

\* the two checks of set_bulb_brightness before the device is called
\* (_NoCapability: without the is_dimmable check)
BrightnessCheck_NoCapability(alias, devices) ==
    IF alias \notin DOMAIN devices THEN "not_found" ELSE "ok"
BrightnessCheck(alias, devices) ==
    IF alias \notin DOMAIN devices THEN "not_found"
    ELSE IF ~IsDimmable(alias) THEN "not_dimmable"
    ELSE "ok"

\* set_bulb_brightness, PUT /kasa/{alias}/brightness/{brightness}
SetBulbBrightness(alias, brightness) ==
    /\ HasKasa
    /\ LET ev0 == [KasaEvent("set_bulb_brightness", alias) EXCEPT
                        !.arg = [NoArg EXCEPT !.type = "int", !.n = brightness]]
           check == BrightnessCheck(alias, kasaDevices)
       IN  IF brightness < BrightnessMin \/ brightness > BrightnessMax
           THEN event' = Invalid(ev0)
           ELSE IF check = "not_found"
           THEN event' = NotFound(ev0)
           ELSE IF check = "not_dimmable"
           THEN event' = [ev0 EXCEPT !.status = HTTP_400_BAD_REQUEST,
                                     !.msg = "Cannot set the brightness"]
           ELSE \E ok \in BOOLEAN :
                event' = AfterDeviceCall(ev0, "set_brightness", ok, "Set the brightness")
    /\ KasaFrame

\* the KasaAdapter as create() leaves it; startup discovers the devices
InitKasa == InitServe /\ registered = <<KasaAdapter>>

NextKasa ==
    \/ \E i \in Instances : HookStartup(i)
    \/ \E alias \in KasaAliases : KasaSingleDevice(alias)
    \/ \E alias \in KasaAliases : DeviceOn(alias)
    \/ \E alias \in KasaAliases : DeviceOff(alias)
    \/ \E alias \in KasaAliases, colour_spec \in ColourSpecs : SetBulbColour(alias, colour_spec)
    \/ \E alias \in KasaAliases, colour_temp \in ColourTemps :
          SetBulbColourTemp(alias, colour_temp)
    \/ \E alias \in KasaAliases, brightness \in Brightnesses :
          SetBulbBrightness(alias, brightness)

SpecKasa == InitKasa /\ [][NextKasa]_vars

\* C17: set-brightness on a known device that is not dimmable answers 400
\* and calls nothing on the device, for every brightness in 0..100.
C17_NotDimmableRefused ==
    (/\ event.op = "set_bulb_brightness"
     /\ event.name \in DOMAIN kasaDevices
     /\ ~IsDimmable(event.name)
     /\ event.arg.n \in BrightnessMin..BrightnessMax) =>
        /\ event.status = HTTP_400_BAD_REQUEST
        /\ event.calls = <<>>

C17_Witness ==
    /\ event.op = "set_bulb_brightness"
    /\ event.name = "plug" /\ "plug" \in DOMAIN kasaDevices
    /\ event.arg.n = BrightnessMax
    /\ event.status = HTTP_400_BAD_REQUEST

\* C18: a colour spec "h,s,v" is parsed into hue, saturation and value in
\* that order, and a spec with a component outside hue 0..360, saturation
\* 0..100, value 0..100 is answered 400-class with no set_hsv call.
C18_ColourBounds ==
    (event.op = "set_bulb_colour" /\ MatchesColourRegex(event.payload[1])) =>
        LET hsv == ParseColour(event.payload[1])
        IN  /\ "set_hsv" \in Range(event.calls) => event.arg.s = hsv
            /\ (hsv[1] > HueMax \/ hsv[2] > PercentMax \/ hsv[3] > PercentMax) =>
                  /\ event.status >= HTTP_400_BAD_REQUEST
                  /\ event.status < HTTP_500_INTERNAL_SERVER_ERROR
                  /\ "set_hsv" \notin Range(event.calls)

\* C19: an endpoint addressing one device by alias answers an unknown alias
\* with a 400-class status and a message and calls nothing on a device.
C19_UnknownAliasRefused ==
    (/\ event.who = "kasa"
     /\ event.op \notin {"none", "startup", "shutdown"}
     /\ event.name \notin DOMAIN kasaDevices
     /\ event.status # HTTP_422_UNPROCESSABLE_ENTITY) =>
        /\ event.status = HTTP_400_BAD_REQUEST
        /\ event.msg # ""
        /\ event.calls = <<>>

----------------------------------------------------------------------------
(* Properties of create and lookup *)

\* C21: a registered class whose configuration slice is not found is still
\* constructed, with an empty configuration, and create() goes on to the
\* classes after it; a missing slice never aborts create().
C21_MissingSliceIsEmptyConfig ==
    creates >= 1 =>
        /\ Len(constructed) = Len(registered)
        /\ \A k \in 1..Len(registered) :
              /\ constructed[k].cls = registered[k]
              /\ (configDoc # "table" \/ registered[k] \notin configSlices) =>
                    constructed[k].cfg = "empty"

C21_Witness ==
    /\ creates = 1 /\ call.op = "create" /\ ~call.raised
    /\ Len(registered) = 3
    /\ configDoc = "table" /\ configSlices = {registered[2]}
    /\ constructed[1].cfg = "empty" /\ constructed[2].cfg = "slice"
    /\ constructed[3].cfg = "empty"

----------------------------------------------------------------------------
(* SpecLookup: create() and get() over plugin classes whose names hold the *)
(* word Adapter more than once                                             *)

\* a plugin class find_adapters registers: its name ends with "Adapter"
AdapterTestAdapter == Suffix \o <<"T","e","s","t">> \o Suffix

LookupClassNames == {KasaAdapter, LGTVAdapter, AdapterTestAdapter}

\* the names get() is asked for
LookupKeys ==
    {AdapterName(c) : c \in LookupClassNames}
        \cup {Lower(SubSeq(c, 1, Len(c) - Len(Suffix))) : c \in LookupClassNames}
        \cup {<<"g","h","o","s","t">>}

\* _created_adapters[adapter_name]
DictGet(d, k) == d[CHOOSE i \in 1..Len(d) : d[i].key = k].inst

\* get(adapter_name)
Get(adapter_name) ==
    /\ event' = IF HasKey(created, adapter_name)
                THEN [NoEvent EXCEPT !.op = "get", !.who = "registry",
                                     !.payload = <<adapter_name>>,
                                     !.sess = DictGet(created, adapter_name)]
                ELSE [NoEvent EXCEPT !.op = "get", !.who = "registry",
                                     !.payload = <<adapter_name>>,
                                     !.raised = TRUE, !.error = "KeyError"]
    /\ UNCHANGED <<cmdVars, regVars, startups, call, kasaDevices, tvVars, lastOp>>

InitLookup ==
    /\ registered \in {s \in UNION {[1..n -> LookupClassNames] : n \in 0..MaxAdapters} :
                          \A i, j \in 1..Len(s) : i # j => s[i] # s[j]}
    /\ configDoc = "table"
    /\ configSlices = {}
    /\ instanceCount = [c \in LookupClassNames |-> 0]
    /\ constructed = <<>>
    /\ created = <<>>
    /\ routes = <<>>
    /\ creates = 0
    /\ startups = <<>>
    /\ call = NoCall
    /\ InitAdapterState([n \in DeviceNames |-> NoKey])

NextLookup == Create \/ \E adapter_name \in LookupKeys : Get(adapter_name)

SpecLookup == InitLookup /\ [][NextLookup]_vars

\* C22: an instance is stored under its class name with only the trailing
\* "Adapter" removed, lower-cased; looking that key up after create()
\* returns that instance, and a key that was never stored is not found.
C22_KeyIsNameWithoutSuffix ==
    [][(creates >= 1 /\ creates' = creates /\ event'.op = "get") =>
        /\ \A k \in 1..Len(registered) :
              LET cls == registered[k]
                  key == Lower(SubSeq(cls, 1, Len(cls) - Len(Suffix)))
              IN  event'.payload = <<key>> =>
                     /\ ~event'.raised
                     /\ constructed[event'.sess].cls = cls
        /\ (~HasKey(created, event'.payload[1])) =>
              (event'.raised /\ event'.error = "KeyError")]_vars

----------------------------------------------------------------------------
(* Properties of the session store *)

\* C23: every session the adapter opened and has not closed is held in the
\* store: when a connect replaces the stored session of a name, the earlier
\* session is not left open, so that disconnect-all reaches every session
\* ever opened.
C23_ReplacedSessionClosed ==
    [][event'.op = "connected" =>
          \A n \in DOMAIN connections :
              connections'[n] # connections[n] =>
                  sessions'[connections[n]].status = "closed"]_vars

\* C24: a construction that fails the single-instance check leaves the
\* instance count, the instance table and the endpoints registered on the
\* router as they were.
C24_RejectedConstructionChangesNothing ==
    [][(creates' # creates /\ call'.op = "create" /\ call'.raised) =>
          /\ instanceCount' = instanceCount
          /\ created' = created
          /\ routes' = routes]_vars

----------------------------------------------------------------------------
(* SpecMain: the process flow of main.py: setup, start (create, startup),  *)
(* serve, stop.  The last registry call tells where the flow is.           *)

\* uvicorn.run(app) is reached once under_control.start(app) has returned
\* (_AfterCreate: the server runs as soon as the adapters are created)
MayServe_AfterCreate == call.op \in {"create", "startup"} /\ ~call.raised
MayServe == call.op = "startup" /\ ~call.raised

\* under_control.start: adapters.create(app)
MainCreate == call = NoCall /\ Create

\* under_control.start: adapters.startup(), reached when create returned
MainStartup == call.op = "create" /\ ~call.raised /\ Startup

\* a request served by the running app
MainServe ==
    /\ MayServe
    /\ \/ \E alias \in KasaAliases : DeviceOn(alias)
       \/ \E alias \in KasaAliases : DeviceOff(alias)
       \/ \E alias \in KasaAliases : KasaSingleDevice(alias)
       \/ \E hosts \in {h \in HostLists : Len(h) <= 1} : DiscoverDevice(hosts)

\* shutdown_event: under_control.stop() when the server shuts down
MainStop == MayServe /\ Shutdown

\* setup() has loaded a configuration with its tables and found the classes
InitMain == Init /\ configDoc = "table"

NextMain == MainCreate \/ MainStartup \/ MainServe \/ MainStop

SpecMain == InitMain /\ [][NextMain]_vars

\* C25: in the flow of main every registered adapter is constructed before
\* any startup() is invoked, no request is served before the registry's
\* startup() has returned, and shutdown() is invoked on constructed
\* adapters only.
C25_LifecycleOrdered ==
    /\ (call.op = "startup" \/ \E i \in Instances : startups[i] > 0) =>
          \A k \in 1..Len(registered) : \E i \in Instances : constructed[i].cls = registered[k]
    /\ event # NoEvent =>
          /\ call.op \in {"startup", "shutdown"}
          /\ \A i \in Range(DictValues(created)) : startups[i] > 0
    /\ call.op = "shutdown" => Range(call.order) \subseteq Instances

C25_Witness ==
    /\ call.op = "shutdown" /\ call.order # <<>>
    /\ event.op = "device_power" /\ event.status = HTTP_200_OK
    /\ Len(registered) = 3

----------------------------------------------------------------------------
(* SpecPair: connect_device and get_devices, one request at a time *)

InitPair == InitStatus

NextPair ==
    \/ \E name \in RequestNames : ConnectDevice("t1", name)
    \/ PersistKey("t1")
    \/ StoreSession("t1")
    \/ \E pings \in [DeviceNames -> BOOLEAN] : GetDevices(pings)

SpecPair == InitPair /\ [][NextPair]_vars

\* C26: after a successful connect the adapter's view of the device holds
\* the new key: the next get_devices answer reports the device paired and
\* connected, and a later connect for the name is handed the stored key.
C26_ViewCarriesKey ==
    [][/\ (event.op = "connected" /\ event'.op = "get_devices") =>
             /\ event'.status = HTTP_200_OK
             /\ event'.summary[event.name].paired
             /\ event'.summary[event.name].connected
       /\ (/\ event'.op = "connect_device"
           /\ event'.name \in DeviceNames
           /\ rt[event'.name].stage >= 1
           /\ ~event'.raised) =>
             event'.key = TvKey[event'.name]]_vars

C26_Witness ==
    /\ event.op = "connect_device" /\ event.name = "tv1"
    /\ event.key = TvKey["tv1"]
    /\ rt["tv1"].stage >= 1
    /\ "tv1" \in DOMAIN connections
    /\ savedKey["tv1"] = TvKey["tv1"]
    /\ savedKey["tv2"] = NoKey
====
